---- MODULE Spec2Model ----
(***************************************************************************)
(* The concurrent web-acquisition core of news-summarizer: the registry    *)
(* (web/base.py BaseRegistry), the bounded executor (web/base.py           *)
(* BaseExecutor with CrawlerExecutor and ScraperExecutor) and the per-site *)
(* handlers (web/scraper/article_page.py, web/crawler/newspaper_website.py)*)
(***************************************************************************)
EXTENDS Naturals, Integers, Sequences, FiniteSets, TLC

(***************************************************************************)
(* Bounds of the model.                                                    *)
(***************************************************************************)
MaxLinks == 2

MaxConcurrent == 2

MaxWorkers == 2

MaxElapsed == 1

MaxInstances == 3
\* the largest scroll_limit given to a crawler
MaxScrollLimit == 2
\* page markers (page numbers, page heights) are 0..MaxMarker
MaxMarker == 2
\* the iterations of a scroll loop that are followed
MaxIterations == 12
\* document ids are 1..MaxIds
MaxIds == 2
\* the largest max_articles given to _get_unscraped_links
MaxArticles == 2
\* the successive runs of scrape_articles that are followed
MaxRuns == 2

\* the module constants of newspaper_website.py
MAX_RETRIES == 5

MAX_REPEATED_PAGE_COUNT == 10

TIMEOUT == 300

(***************************************************************************)
(* Strings are sequences of tokens, so that parsing and formatting a URL   *)
(* are computed and not assumed.                                           *)
(***************************************************************************)
None == "None"

Url(scheme, netloc, path) ==
    <<scheme, "://", netloc, "/">> \o path

\* the tokens that end the network location of a URL
Delimiters == {"/", "?", "#"}

\* urllib.parse.urlparse, restricted to the scheme and netloc attributes: the
\* netloc is what stands between "://" and the first of "/", "?" and "#",
\* a port included
urlparse(name) ==
    IF Len(name) >= 2 /\ name[2] = "://"
    THEN LET stops == {i \in 3..Len(name) : name[i] \in Delimiters}
             end == IF stops = {} THEN Len(name) + 1
                    ELSE CHOOSE i \in stops : \A j \in stops : i <= j
         IN [scheme |-> name[1], netloc |-> SubSeq(name, 3, end - 1)]
    ELSE [scheme |-> "", netloc |-> <<>>]

\* ParseResult.hostname: the netloc without its port
hostname(domain) ==
    IF domain.netloc = <<>> THEN <<>> ELSE <<domain.netloc[1]>>

_extract_netloc(domain) ==
    <<domain.scheme, "://">> \o domain.netloc \o <<"/">>

(***************************************************************************)
(* The handler classes and the two module-level registries.                *)
(***************************************************************************)
Scrapers == {"G1Scraper", "R7Scraper", "BandScraper", "BBCBrasilScraper", "CNNBrasilScraper"}

Crawlers == {"G1Crawler", "BandCrawler", "R7Crawler", "CNNBrasilCrawler", "BBCBrasilCrawler"}

Executors == {"CrawlerExecutor", "ScraperExecutor"}

G1Key == <<"https", "://", "g1.globo.com", "/">>

BandKey == <<"https", "://", "bandnewstv.uol.com.br", "/">>

R7Key == <<"https", "://", "noticias.r7.com", "/">>

BBCKey == <<"https", "://", "www.bbc.com", "/">>

CNNKey == <<"https", "://", "www.cnnbrasil.com.br", "/">>

SiteKeys == {G1Key, BandKey, R7Key, BBCKey, CNNKey}

scraper_registry ==
    (G1Key :> "G1Scraper") @@ (BandKey :> "BandScraper") @@ (R7Key :> "R7Scraper")
    @@ (BBCKey :> "BBCBrasilScraper") @@ (CNNKey :> "CNNBrasilScraper")

crawler_registry ==
    (G1Key :> "G1Crawler") @@ (BandKey :> "BandCrawler") @@ (R7Key :> "R7Crawler")
    @@ (BBCKey :> "BBCBrasilCrawler") @@ (CNNKey :> "CNNBrasilCrawler")

RegistryOf(ex) ==
    IF ex = "ScraperExecutor" THEN scraper_registry ELSE crawler_registry

(***************************************************************************)
(* BaseRegistry.register and BaseRegistry.get as functions of the registry *)
(* contents.  A raised exception is a value of the field "raised".         *)
(***************************************************************************)
\* a register that replaces the entry of a key already registered
register_overwrite(comps, name, component) ==
    [raised |-> "none",
     comps |-> [k \in DOMAIN comps \cup {name} |-> IF k = name THEN component ELSE comps[k]]]

register(comps, name, component) ==
    IF name \in DOMAIN comps
    THEN [raised |-> "ValueError", comps |-> comps]
    ELSE [raised |-> "none",
          comps |-> [k \in DOMAIN comps \cup {name} |->
                        IF k = name THEN component ELSE comps[k]]]

\* a lookup that takes the first registered key whose host occurs in the
\* string, whatever stands around it
get_lookup_host(comps, name) ==
    LET hits == {k \in DOMAIN comps : \E i \in 1..Len(name) : Len(k) >= 3 /\ name[i] = k[3]}
    IN IF hits = {}
       THEN [raised |-> "KeyError", factory |-> None]
       ELSE [raised |-> "none", factory |-> comps[CHOOSE k \in hits : TRUE]]

\* a lookup by the string as given
get_lookup_name(comps, name) ==
    IF name \notin DOMAIN comps
    THEN [raised |-> "KeyError", factory |-> None]
    ELSE [raised |-> "none", factory |-> comps[name]]

\* the lookup of get: the factory registered for the URL, or KeyError
get_lookup(comps, name) ==
    LET netloc == _extract_netloc(urlparse(name))
    IN IF netloc \notin DOMAIN comps
       THEN [raised |-> "KeyError", factory |-> None]
       ELSE [raised |-> "none", factory |-> comps[netloc]]

list_components(comps) == DOMAIN comps

(***************************************************************************)
(* What a scraper can find on an article page.  Every field of the page is *)
(* an input of extract.                                                    *)
(***************************************************************************)
ArticlePages ==
    [get : {"ok", "InvalidSessionIdException", "TimeoutException"},
     soup : {"parsed", "empty"},
     title : BOOLEAN, author : BOOLEAN, subtitle : BOOLEAN, content : BOOLEAN,
     date : {"ok", "missing", "malformed"},
     insert : BOOLEAN]

Field(raised, value) == [raised |-> raised, value |-> value]

\* _extract_title: AttributeError on a missing element becomes ValueError
_extract_title(cls, page) ==
    IF page.title THEN Field("none", "title") ELSE Field("ValueError", None)

\* _extract_author: AttributeError is caught, None is returned
_extract_author(cls, page) ==
    IF page.author THEN Field("none", "author") ELSE Field("none", None)

\* _extract_subtitle: AttributeError is caught, None is returned
_extract_subtitle(cls, page) ==
    IF page.subtitle THEN Field("none", "subtitle") ELSE Field("none", None)

\* _extract_content: select / find_all give an empty list on a missing body
\* (G1, BBCBrasil, CNNBrasil); find gives None and the next call raises
\* AttributeError, turned into ValueError (R7, Band)
_extract_content(cls, page) ==
    IF page.content THEN Field("none", "content")
    ELSE IF cls \in {"R7Scraper", "BandScraper"} THEN Field("ValueError", None)
    ELSE Field("none", "")

\* _extract_publication_date: subscripting the None of a missing <time>
\* raises TypeError (G1, R7, BBCBrasil); BBCBrasil catches it and then reads
\* the unbound name `at`; Band and CNNBrasil get AttributeError from .text
\* and return None, and raise ValueError from strptime on a malformed date
_extract_publication_date(cls, page) ==
    CASE page.date = "ok" -> Field("none", "date")
      [] page.date = "missing" ->
            IF cls \in {"G1Scraper", "R7Scraper"} THEN Field("TypeError", None)
            ELSE IF cls = "BBCBrasilScraper" THEN Field("NameError", None)
            ELSE Field("none", None)
      [] OTHER ->
            IF cls \in {"BandScraper", "CNNBrasilScraper"} THEN Field("ValueError", None)
            ELSE Field("none", "malformed")

\* Article(...): pydantic validation of the fields (documents.py); its
\* ValidationError is a ValueError
Article(title, subtitle, author, content, publication_date, url) ==
    IF title = None \/ content = None \/ publication_date = "malformed"
    THEN Field("ValueError", None)
    ELSE Field("none", [title |-> title, subtitle |-> subtitle, author |-> author,
                        content |-> content, publication_date |-> publication_date,
                        url |-> url])

\* the first exception of a sequence of steps, "none" when none raised
FirstRaised(steps) ==
    IF \A i \in 1..Len(steps) : steps[i].raised = "none" THEN "none"
    ELSE steps[CHOOSE i \in 1..Len(steps) :
                  /\ steps[i].raised # "none"
                  /\ \A j \in 1..(i - 1) : steps[j].raised = "none"].raised

\* the except clauses of extract: ValueError and InvalidSessionIdException
\* are logged and swallowed; any other exception reaches the clause
\* `except HTTPConnectionPool`, which is no exception class, so that the
\* matching itself raises TypeError
extract_except(exc) ==
    IF exc \in {"none", "ValueError", "InvalidSessionIdException"} THEN "none"
    ELSE "TypeError"

\* whether the class saves the Article it built (G1, R7, Band) or only
\* returns it (BBCBrasil, CNNBrasil)
Saves(cls) == cls \in {"G1Scraper", "R7Scraper", "BandScraper"}

\* the finally clause of extract: the driver is closed, an error of close is
\* logged and swallowed
extract_finally == <<"close">>

\* <Site>Scraper.extract(article_link) on a page
extract(cls, article_link, page) ==
    LET title == _extract_title(cls, page)
        author == _extract_author(cls, page)
        subtitle == _extract_subtitle(cls, page)
        content == _extract_content(cls, page)
        publication_date == _extract_publication_date(cls, page)
        intance == Article(title.value, subtitle.value, author.value, content.value,
                           publication_date.value, article_link)
        body == FirstRaised(<<Field(IF page.get = "ok" THEN "none" ELSE page.get, None),
                              Field(IF page.soup = "empty" THEN "ValueError" ELSE "none", None),
                              title, author, subtitle, content, publication_date, intance>>)
        built == body = "none"
    IN [raised |-> extract_except(body),
        caught |-> body,
        built |-> built,
        article |-> IF built THEN intance.value ELSE None,
        persisted |-> built /\ Saves(cls) /\ page.insert,
        calls |-> (IF page.get = "ok" THEN <<"get", "execute_script", "page_source">>
                   ELSE <<"get">>) \o extract_finally]

(***************************************************************************)
(* What a crawler meets on a listing page.  `reclose` is what the driver   *)
(* does when close is called on a session that is already closed: it       *)
(* raises, or it does nothing.                                             *)
(***************************************************************************)
ListingPages ==
    [get : {"ok", "TimeoutException"},
     footer : BOOLEAN, cookies : BOOLEAN,
     insert : BOOLEAN,
     reclose : {"raises", "ignored"}]

\* the waits that search makes before scrolling: the footer (all but Band)
\* and the cookie banner (G1)
WaitsFooter(cls) == cls # "BandCrawler"

WaitsCookies(cls) == cls = "G1Crawler"

\* the close that search makes after extracting the links, before the insert
search_close == <<"close">>

\* <Site>Crawler.search(link) on a page; scroll_page never raises
search(cls, link, page) ==
    LET body == FirstRaised(<<Field(IF page.get = "ok" THEN "none" ELSE page.get, None),
                              Field(IF WaitsFooter(cls) /\ ~page.footer
                                    THEN "TimeoutException" ELSE "none", None),
                              Field(IF WaitsCookies(cls) /\ ~page.cookies
                                    THEN "TimeoutException" ELSE "none", None)>>)
        scraped == body = "none"
        inner == IF scraped THEN <<"get", "page_source">> \o search_close ELSE <<"get">>
        closed == \E i \in 1..Len(inner) : inner[i] = "close"
    IN [raised |-> IF body # "none" THEN body
                   ELSE IF closed /\ page.reclose = "raises"
                        THEN "InvalidSessionIdException" ELSE "none",
        caught |-> body,
        built |-> FALSE,
        article |-> None,
        persisted |-> scraped /\ page.insert,
        calls |-> inner \o <<"close">>]

\* the number of close calls among the driver calls of a handler
Closes(calls) == Cardinality({i \in 1..Len(calls) : calls[i] = "close"})

(***************************************************************************)
(* The executors.  _run is the part of CrawlerExecutor._run and            *)
(* ScraperExecutor._run that follows registry.get: the call of the handler *)
(* inside try, the log entry and the value returned.                       *)
(***************************************************************************)
PagesOf(ex) == IF ex = "ScraperExecutor" THEN ArticlePages ELSE ListingPages

Handle(ex, cls, link, page) ==
    IF ex = "ScraperExecutor" THEN extract(cls, link, page) ELSE search(cls, link, page)

LogEntry(link, exc) == [level |-> "error", msg |-> "Task failed", link |-> link, exc |-> exc]

\* the handler of `except Exception as ex` in ScraperExecutor._run
scraper_except(link, ex) ==
    [raised |-> "none", value |-> "False", log |-> {LogEntry(link, ex)}]

\* the handler of `except Exception as ex` in CrawlerExecutor._run: the log
\* call reads the unbound name `err`
crawler_except(link, ex) ==
    [raised |-> "NameError", value |-> None, log |-> {}]

_run(ex, cls, link, page) ==
    LET h == Handle(ex, cls, link, page)
    IN IF h.raised = "none"
       THEN [raised |-> "none", value |-> "True", log |-> {}, handler |-> h]
       ELSE [handler |-> h] @@
            (IF ex = "ScraperExecutor" THEN scraper_except(link, h.raised)
             ELSE crawler_except(link, h.raised))

\* what running the handler of a class can give the task: the outcome of the
\* handler and of _run, over all pages
RunOutcomes ==
    [ex \in Executors |->
        [cls \in (IF ex = "ScraperExecutor" THEN Scrapers ELSE Crawlers) |->
            {[handler_raised |-> _run(ex, cls, <<>>, page).handler.raised # "none",
              raised |-> _run(ex, cls, <<>>, page).raised,
              value |-> _run(ex, cls, <<>>, page).value] : page \in PagesOf(ex)}]]

\* the exception classes raised in the program, all subclasses of Exception
Exceptions ==
    {"KeyError", "ValueError", "TypeError", "NameError", "AttributeError", "Exception",
     "ZeroDivisionError", "TimeoutException", "InvalidSessionIdException",
     "StaleElementReferenceException", "WebDriverException"}

\* a factory that knows Chrome only
get_webdriver_chrome(found) ==
    IF "google-chrome" \in found THEN [raised |-> "none", creator |-> "ChromeWebDriverCreator"]
    ELSE [raised |-> "Exception", creator |-> None]

\* WebDriverFactory.get_webdriver, called by the constructor of every handler:
\* the creator chosen for the browsers found, or an exception when none is
get_webdriver(found) ==
    IF "google-chrome" \in found THEN [raised |-> "none", creator |-> "ChromeWebDriverCreator"]
    ELSE IF "firefox" \in found THEN [raised |-> "none", creator |-> "FirefoxWebDriverCreator"]
    ELSE IF "microsoft-edge-stable" \in found
         THEN [raised |-> "none", creator |-> "EdgeWebDriverCreator"]
    ELSE [raised |-> "Exception", creator |-> None]

\* <Browser>WebDriverCreator.create_webdriver: the browser starts and the
\* session is returned, or selenium raises; a session is named after the
\* creator that produced it
create_webdriver(creator, launch) ==
    IF launch = "started" THEN [raised |-> "none", session |-> creator]
    ELSE [raised |-> launch, session |-> None]

\* RateCalculator._calculate_rate: counter / (duration / 60), which divides
\* by zero when the clock has not advanced since the start
_calculate_rate(counter, start_time, current_time) ==
    LET duration == current_time - start_time
    IN IF duration = 0 THEN [raised |-> "ZeroDivisionError", rate |-> None]
       ELSE [raised |-> "none", rate |-> <<counter * 60, duration>>]

(***************************************************************************)
(* State.                                                                  *)
(*   executor, _components, max_concurrent, max_workers, semaphore: the    *)
(*     executor object and its registry (BaseExecutor.__init__);           *)
(*   installed: the browsers that the locator finds on this machine;       *)
(*   phase, links, futures, results, _counter, _start_time: one call of    *)
(*     BaseExecutor.run; futures[i] is the task submitted for links[i];    *)
(*   instances: the number of handler instances constructed so far;        *)
(*   call: the last call made on a registry on its own (register or get),  *)
(*     with the registry before it and the instances handed out earlier;   *)
(*   dispatch: one call of _run followed through the handler;              *)
(*   writes: the assignments results[link] = value made by run, in order;  *)
(*   scroll: the local variables of one call of scroll_page;               *)
(*   collection: the data of the collection that save inserts into;        *)
(*   pipeline: the Link and Article collections, by URL, and the position  *)
(*     of the step scrape_articles over its successive runs.               *)
(***************************************************************************)
VARIABLES executor, _components, installed, max_concurrent, max_workers, semaphore,
          phase, links, futures, results, _counter, _start_time, instances,
          call, dispatch, writes, scroll, collection, pipeline

vars == <<executor, _components, installed, max_concurrent, max_workers, semaphore,
          phase, links, futures, results, _counter, _start_time, instances,
          call, dispatch, writes, scroll, collection, pipeline>>

execVars == <<executor, _components, installed, max_concurrent, max_workers>>

runVars ==
    <<semaphore, phase, links, futures, results, _counter, _start_time, instances, writes>>

sideVars == <<scroll, collection, pipeline>>

\* strings that are not absolute URLs: the empty string, "g1.globo.com/a"
\* (no scheme) and "https:///a" (no host)
MalformedTargets ==
    {<<>>, <<"g1.globo.com", "/", "a">>, <<"https", "://", "/", "a">>}

Targets ==
    {Url("https", "g1.globo.com", <<"a">>),
     Url("https", "www.bbc.com", <<"b">>),
     Url("https", "unregistered.example", <<>>),
     <<>>,
     <<"g1.globo.com", "/", "a">>}

InputLists == UNION {[1..n -> Targets] : n \in 0..MaxLinks}

Put(map, key, value) ==
    [k \in DOMAIN map \cup {key} |-> IF k = key THEN value ELSE map[k]]

\* instances are numbered from 1; 0 stands for no instance
NoCall == [op |-> "none", instance |-> 0, made |-> {}]

\* the instances handed out up to and including a call
Made(c) == c.made \cup (IF c.instance = 0 THEN {} ELSE {<<c.instance, c.name>>})

NoDispatch == [pc |-> "none"]

NoScroll == [pc |-> "none"]

\* the variables of the parts that are not modelled in a behaviour
NoPipeline == [pc |-> "none"]

NoSide ==
    /\ scroll = NoScroll
    /\ collection = <<>>
    /\ pipeline = NoPipeline

\* the variables of a run when no run is modelled; the None of _counter and
\* _start_time before a run is -1
NoRun ==
    /\ links = <<>>
    /\ futures = <<>>
    /\ results = <<>>
    /\ _counter = -1
    /\ _start_time = -1
    /\ writes = <<>>

Future(pc, handler, value) == [pc |-> pc, handler |-> handler, value |-> value, yielded |-> FALSE]

\* BaseExecutor.__init__ on one of the module-level registries; the None of
\* _counter and _start_time is -1
ExecutorInit ==
    /\ executor \in Executors
    /\ _components = RegistryOf(executor)
    /\ installed \in {{}, {"google-chrome"}}
    /\ max_concurrent \in 1..MaxConcurrent
    /\ max_workers \in 1..MaxWorkers
    /\ semaphore = max_concurrent
    /\ phase = "idle"
    /\ links = <<>>
    /\ futures = <<>>
    /\ results = <<>>
    /\ _counter = -1
    /\ _start_time = -1
    /\ instances = 0
    /\ call = NoCall
    /\ dispatch = NoDispatch
    /\ writes = <<>>
    /\ NoSide

\* run, up to the submission of one task per link; clock readings are counted
\* from the reading taken here.  The pool is created, or ThreadPoolExecutor
\* cannot start its threads and the error leaves run.
Run(ls) ==
    /\ phase = "idle"
    /\ links' = ls
    /\ results' = <<>>
    /\ writes' = <<>>
    /\ _start_time' = 0
    /\ _counter' = 0
    /\ \E pool \in {"ok", "RuntimeError"} :
          IF pool = "ok"
          THEN /\ phase' = "running"
               /\ futures' = [i \in 1..Len(ls) |-> Future("queued", 0, "pending")]
          ELSE /\ phase' = "raised"
               /\ futures' = <<>>
    /\ UNCHANGED <<execVars, semaphore, instances, call, dispatch, sideVars>>

\* a pool whose threads end after their first task
Dequeued_once(i) == i <= max_workers

\* The pool runs the tasks in submission order on max_workers threads: a
\* thread takes the next queued task as soon as it is free, so the tasks taken
\* so far are the first max_workers plus one for every task that is done.
Dequeued(i) ==
    i <= max_workers + Cardinality({j \in DOMAIN futures : futures[j].pc = "done"})

\* the tasks blocked in `with self.semaphore`
Waiting(i) == futures[i].pc = "queued" /\ Dequeued(i)

\* the task leaves _task_wrapper: the permit is given back and the future is
\* set to the value returned or the exception raised
Leave(i, value) ==
    futures' = [futures EXCEPT ![i] = Future("done", 0, value)]

\* a factory that hands out one instance per class
SharedInstance(cls, count) == 1

\* the instance that calling a factory gives: a new one
NewInstance(cls, count) == count + 1

\* `with self.semaphore` entered without waiting for a permit
Permit_unguarded == TRUE

\* `with self.semaphore`: a permit is free
Permit == semaphore > 0

\* _task_wrapper takes a permit and calls _run, which begins with
\* registry.get(link): KeyError for an unregistered host, or the factory is
\* called and the constructor opens a browser session, or raises when no
\* browser is installed.  On an
\* exception the task leaves _task_wrapper at once and the permit is back.
Acquire(i) ==
    /\ phase = "running"
    /\ Waiting(i)
    /\ Permit
    /\ LET found == get_lookup(_components, links[i])
       IN IF found.raised # "none"
          THEN Leave(i, found.raised) /\ UNCHANGED <<semaphore, instances>>
          ELSE IF get_webdriver(installed).raised # "none"
          THEN Leave(i, get_webdriver(installed).raised) /\ UNCHANGED <<semaphore, instances>>
          ELSE /\ semaphore' = semaphore - 1
               /\ instances' = instances + 1
               /\ futures' = [futures EXCEPT
                     ![i] = Future("live", NewInstance(found.factory, instances), "pending")]
    /\ UNCHANGED <<execVars, phase, links, results, _counter, _start_time, call, dispatch,
                   writes, sideVars>>

\* a `with` block that keeps its permit
release_lost(permits) == permits

\* the exit of `with self.semaphore`, by return or by exception: the permit
\* is given back
release(permits) == permits + 1

\* the value of the future for an outcome of _run
FutureValue(out) ==
    IF out.raised # "none" THEN out.raised ELSE out.value

\* _run: the handler's search / extract returns or raises, _run returns or
\* raises, and the task leaves _task_wrapper
Finish(i) ==
    /\ phase = "running"
    /\ futures[i].pc = "live"
    /\ \E out \in RunOutcomes[executor][get_lookup(_components, links[i]).factory] :
          Leave(i, FutureValue(out))
    /\ semaphore' = release(semaphore)
    /\ UNCHANGED <<execVars, phase, links, results, _counter, _start_time,
                   instances, call, dispatch, writes, sideVars>>

\* an except clause that names KeyError only
run_except_KeyError(exc) == exc = "KeyError"

\* `except Exception` in the loop of run: every exception that a task, the
\* registry, a constructor or the rate computation raises is an Exception
run_except(exc) == exc \in Exceptions

\* an except clause that logs and leaves the result map alone
record_failure_skip(map, link) == map

\* the except clause of the loop: results[link] = False
record_failure(map, link) == Put(map, link, FALSE)

\* one iteration of `for future in as_completed(futures)`: the result of the
\* future is recorded, the counter and the rate are updated; an exception of
\* the future, or of the rate computation, is recorded as False
Collect(i) ==
    /\ phase = "running"
    /\ futures[i].pc = "done"
    /\ ~futures[i].yielded
    /\ futures' = [futures EXCEPT ![i].yielded = TRUE]
    /\ LET link == links[i]
           value == futures[i].value
       IN IF value \in {"True", "False"}
          THEN \E current_time \in 0..MaxElapsed :
                  LET rate == _calculate_rate(_counter + 1, _start_time, current_time)
                      recorded == Put(results, link, value = "True")
                      written == Append(writes, <<link, value = "True">>)
                  IN /\ _counter' = _counter + 1
                     /\ IF rate.raised = "none"
                        THEN /\ results' = recorded
                             /\ writes' = written
                             /\ UNCHANGED phase
                        ELSE IF run_except(rate.raised)
                        THEN /\ results' = record_failure(recorded, link)
                             /\ writes' = Append(written, <<link, FALSE>>)
                             /\ UNCHANGED phase
                        ELSE /\ results' = recorded
                             /\ writes' = written
                             /\ phase' = "raised"
          ELSE /\ UNCHANGED _counter
               /\ IF run_except(value)
                  THEN /\ results' = record_failure(results, link)
                       /\ writes' = Append(writes, <<link, FALSE>>)
                       /\ UNCHANGED phase
                  ELSE /\ phase' = "raised"
                       /\ UNCHANGED <<results, writes>>
    /\ UNCHANGED <<execVars, semaphore, links, _start_time, instances, call, dispatch,
                   sideVars>>

\* a loop that ends when no finished future is left to yield
Completed_idle == \A i \in DOMAIN futures : futures[i].pc = "done" => futures[i].yielded

\* as_completed(futures) is exhausted and the pool is shut down: every future
\* has finished and has been yielded
Completed == \A i \in DOMAIN futures : futures[i].pc = "done" /\ futures[i].yielded

\* run returns the result map once every future has been yielded
Return ==
    /\ phase = "running"
    /\ Completed
    /\ phase' = "returned"
    /\ UNCHANGED <<execVars, semaphore, links, futures, results, _counter, _start_time,
                   instances, call, dispatch, writes, sideVars>>

(***************************************************************************)
(* A registry on its own: BaseRegistry.__init__, then register and get in  *)
(* any order.                                                              *)
(***************************************************************************)
RegNames == {G1Key, BBCKey, <<"https", "://", "g1.globo.com">>}

Components == {"G1Scraper", "BBCBrasilScraper"}

\* URLs of a registered site with a port, with a query and no path, and with
\* a fragment
PortedNames ==
    {<<"https", "://", "g1.globo.com", ":", "443", "/", "a">>,
     <<"https", "://", "g1.globo.com", "?", "q">>,
     <<"https", "://", "g1.globo.com", "/", "a", "#", "f">>}

GetNames == Targets \cup RegNames \cup PortedNames

RegistryInit ==
    /\ phase = "registry"
    /\ executor = None
    /\ _components = <<>>
    /\ installed \in {{}, {"google-chrome"}}
    /\ max_concurrent = 1
    /\ max_workers = 1
    /\ semaphore = 1
    /\ NoRun
    /\ instances = 0
    /\ call = NoCall
    /\ dispatch = NoDispatch
    /\ NoSide

Register(name, component) ==
    /\ phase = "registry"
    /\ LET r == register(_components, name, component)
       IN /\ _components' = r.comps
          /\ call' = [op |-> "register", name |-> name, component |-> component,
                      raised |-> r.raised, before |-> _components, instance |-> 0,
                      made |-> Made(call)]
    /\ UNCHANGED <<executor, installed, max_concurrent, max_workers, runVars, dispatch,
                   sideVars>>

\* get: the lookup, then the call of the factory, whose constructor asks
\* WebDriverFactory for a session
Get(name) ==
    /\ phase = "registry"
    /\ instances < MaxInstances
    /\ LET found == get_lookup(_components, name)
           driver == get_webdriver(installed)
           made == found.raised = "none" /\ driver.raised = "none"
       IN /\ call' = [op |-> "get", name |-> name, component |-> found.factory,
                      raised |-> IF found.raised # "none" THEN found.raised ELSE driver.raised,
                      before |-> _components,
                      instance |-> IF made THEN NewInstance(found.factory, instances)
                                   ELSE 0,
                      made |-> Made(call)]
          /\ instances' = IF made THEN instances + 1 ELSE instances
    /\ UNCHANGED <<execVars, semaphore, phase, links, futures, results, _counter,
                   _start_time, dispatch, writes, sideVars>>

(***************************************************************************)
(* One call of _run(link) followed through the handler: registry.get, the  *)
(* handler's search / extract on a page, and the return of _run.           *)
(***************************************************************************)
SiteLinks ==
    {Url("https", "g1.globo.com", <<"a">>),
     Url("https", "noticias.r7.com", <<"a">>),
     Url("https", "bandnewstv.uol.com.br", <<"a">>),
     Url("https", "www.bbc.com", <<"a">>),
     Url("https", "www.cnnbrasil.com.br", <<"a">>),
     Url("https", "unregistered.example", <<>>)} \cup MalformedTargets

DispatchInit ==
    /\ phase = "dispatch"
    /\ executor \in Executors
    /\ _components = RegistryOf(executor)
    /\ installed \in {{}, {"google-chrome"}}
    /\ max_concurrent = 1
    /\ max_workers = 1
    /\ semaphore = 1
    /\ NoRun
    /\ instances = 0
    /\ call = NoCall
    /\ NoSide
    /\ \E link \in SiteLinks, page \in PagesOf(executor) :
          dispatch = [pc |-> "get", link |-> link, page |-> page, cls |-> None,
                      session |-> "none", handler |-> None, out |-> None]

\* scraper = self.registry.get(link); an exception leaves _run
DispatchGet ==
    /\ phase = "dispatch"
    /\ dispatch.pc = "get"
    /\ LET found == get_lookup(_components, dispatch.link)
           driver == get_webdriver(installed)
       IN IF found.raised # "none" \/ driver.raised # "none"
          THEN /\ dispatch' = [dispatch EXCEPT
                    !.pc = "done",
                    !.out = [raised |-> IF found.raised # "none" THEN found.raised
                                        ELSE driver.raised,
                             value |-> None, log |-> {}]]
               /\ UNCHANGED instances
          ELSE /\ dispatch' = [dispatch EXCEPT
                    !.pc = "call", !.cls = found.factory, !.session = "open"]
               /\ instances' = instances + 1
    /\ UNCHANGED <<execVars, semaphore, phase, links, futures, results, _counter,
                   _start_time, call, writes, sideVars>>

\* scraper.extract(link) / crawler.search(link), to its return or raise
DispatchCall ==
    /\ phase = "dispatch"
    /\ dispatch.pc = "call"
    /\ LET h == Handle(executor, dispatch.cls, dispatch.link, dispatch.page)
       IN dispatch' = [dispatch EXCEPT
              !.pc = "handled",
              !.handler = h,
              !.session = IF Closes(h.calls) > 0 THEN "closed" ELSE "open"]
    /\ UNCHANGED <<execVars, runVars, call, sideVars>>

\* the rest of _run: return True, or the except clause
DispatchReturn ==
    /\ phase = "dispatch"
    /\ dispatch.pc = "handled"
    /\ LET r == _run(executor, dispatch.cls, dispatch.link, dispatch.page)
       IN dispatch' = [dispatch EXCEPT
              !.pc = "done",
              !.out = [raised |-> r.raised, value |-> r.value, log |-> r.log]]
    /\ UNCHANGED <<execVars, runVars, call, sideVars>>

(***************************************************************************)
(* One call of <Site>Crawler.scroll_page: the local variables of the loop, *)
(* and one action per iteration of `while True`.  The inputs of an         *)
(* iteration are the clock reading, what the waits on the page do, and the *)
(* marker read from the load-more control (the page height for R7).        *)
(***************************************************************************)
\* clock readings, as time elapsed since start_time
Clock == {0, TIMEOUT, TIMEOUT + 1}

Waits == {"ok", "TimeoutException", "StaleElementReferenceException", "WebDriverException"}

Markers == 0..MaxMarker

\* the loops that read a page number from the load-more control
ReadsMarker(cls) == cls # "R7Crawler"

\* the loops that count the iterations that show the same page number
CountsRepeated(cls) == cls \in {"G1Crawler", "BandCrawler", "CNNBrasilCrawler"}

\* `if elapsed_time > timeout_duration:` is followed by break in every class
\* but R7Crawler, which only logs
time_up_break(cls) == cls # "R7Crawler"

\* except clauses that end the loop at the first exception
scroll_except_break(cls, exc) == "break"

\* the except clauses of the loop body: a timeout of a wait is retried, and
\* so is a stale element in BandCrawler; anything else ends the loop
scroll_except(cls, exc) ==
    IF exc = "TimeoutException" THEN "retry"
    ELSE IF exc = "StaleElementReferenceException" /\ cls = "BandCrawler" THEN "retry"
    ELSE "break"

End(st, reason) == [st EXCEPT !.pc = "ended", !.reason = reason]

\* a body whose limit test is `load_more > self.scroll_limit`
marker_body_late(cls, st, page_number) ==
    LET repeated == IF ~CountsRepeated(cls) THEN st.repeated_page_count
                    ELSE IF page_number = st.last_page_number
                         THEN st.repeated_page_count + 1 ELSE 0
        counted == [st EXCEPT !.repeated_page_count = repeated,
                              !.page_number = page_number]
        loaded == [counted EXCEPT !.load_more = @ + 1, !.last_page_number = page_number]
    IN IF CountsRepeated(cls) /\ repeated > MAX_REPEATED_PAGE_COUNT
       THEN End(counted, "repeated")
       ELSE IF page_number > st.last_page_number
       THEN (IF loaded.load_more > st.scroll_limit THEN End(loaded, "limit")
             ELSE [loaded EXCEPT !.clicks = @ + 1])
       ELSE [counted EXCEPT !.clicks = @ + 1]

\* the body of the loop of G1Crawler, BandCrawler, CNNBrasilCrawler and
\* BBCBrasilCrawler once a page number has been read
marker_body(cls, st, page_number) ==
    LET repeated == IF ~CountsRepeated(cls) THEN st.repeated_page_count
                    ELSE IF page_number = st.last_page_number
                         THEN st.repeated_page_count + 1 ELSE 0
        counted == [st EXCEPT !.repeated_page_count = repeated,
                              !.page_number = page_number]
        loaded == [counted EXCEPT !.load_more = @ + 1, !.last_page_number = page_number]
    IN IF CountsRepeated(cls) /\ repeated > MAX_REPEATED_PAGE_COUNT
       THEN End(counted, "repeated")
       ELSE IF page_number > st.last_page_number
       THEN (IF loaded.load_more >= st.scroll_limit THEN End(loaded, "limit")
             ELSE [loaded EXCEPT !.clicks = @ + 1])
       ELSE [counted EXCEPT !.clicks = @ + 1]

\* the body of the loop of R7Crawler once the page height has been read
height_body(st, new_height) ==
    IF st.load_more >= st.scroll_limit THEN End(st, "limit")
    ELSE IF new_height # st.last_page_number
    THEN [st EXCEPT !.clicks = @ + 1, !.last_page_number = new_height, !.load_more = @ + 1]
    ELSE [st EXCEPT !.clicks = @ + 1]

\* one iteration of `while True` in scroll_page
scroll_iteration(cls, st0, now, wait, marker) ==
    LET st == [st0 EXCEPT !.elapsed = now, !.iterations = @ + 1,
                          !.steady = st0.steady /\ wait = "ok"
                                     /\ (st0.first = -1 \/ st0.first = marker),
                          !.first = IF st0.first = -1 /\ wait = "ok" THEN marker ELSE @]
        waited == [st EXCEPT !.timeouts = IF wait = "TimeoutException" THEN @ + 1 ELSE @]
    IN IF now > TIMEOUT /\ time_up_break(cls) THEN End(st, "timeout")
       ELSE IF st.retry_count > MAX_RETRIES THEN End(st, "retries")
       ELSE IF wait # "ok"
       THEN (IF scroll_except(cls, wait) = "retry"
             THEN [waited EXCEPT !.retry_count = @ + 1]
             ELSE End(waited, "error"))
       ELSE IF ReadsMarker(cls) THEN marker_body(cls, waited, marker)
       ELSE height_body(waited, marker)

\* scroll_page up to the loop; R7Crawler reads the page height first
ScrollInit ==
    /\ phase = "scroll"
    /\ executor = None
    /\ _components = crawler_registry
    /\ installed = {"google-chrome"}
    /\ max_concurrent = 1
    /\ max_workers = 1
    /\ semaphore = 1
    /\ NoRun
    /\ instances = 1
    /\ call = NoCall
    /\ dispatch = NoDispatch
    /\ collection = <<>>
    /\ pipeline = NoPipeline
    /\ \E cls \in Crawlers, scroll_limit \in 1..MaxScrollLimit, last_height \in Markers :
          /\ (ReadsMarker(cls) => last_height = 0)
          /\ scroll = [pc |-> "loop", cls |-> cls, scroll_limit |-> scroll_limit,
                       load_more |-> 0, page_number |-> 0,
                       last_page_number |-> last_height,
                       repeated_page_count |-> 0, retry_count |-> 0,
                       timeouts |-> 0,
                       elapsed |-> 0, iterations |-> 0, clicks |-> 0,
                       first |-> -1, steady |-> TRUE, reason |-> "none"]

ScrollIteration(now, wait, marker) ==
    /\ phase = "scroll"
    /\ scroll.pc = "loop"
    /\ scroll.iterations < MaxIterations
    /\ now >= scroll.elapsed
    /\ scroll' = scroll_iteration(scroll.cls, scroll, now, wait, marker)
    /\ UNCHANGED <<execVars, runVars, call, dispatch, collection, pipeline>>

(***************************************************************************)
(* WebDriverFactory on its own: get_webdriver on a machine with any set of *)
(* browsers, creator.create_webdriver() included.                          *)
(***************************************************************************)
Browsers == {"google-chrome", "firefox", "microsoft-edge-stable"}

Launches == {"started", "WebDriverException"}

FactoryInit ==
    /\ phase = "factory"
    /\ executor = None
    /\ _components = <<>>
    /\ installed \in SUBSET Browsers
    /\ max_concurrent = 1
    /\ max_workers = 1
    /\ semaphore = 1
    /\ NoRun
    /\ instances = 0
    /\ call = NoCall
    /\ dispatch = NoDispatch
    /\ NoSide

\* get_webdriver: the three find_browser calls, the choice of the creator,
\* and `return creator.create_webdriver()`
GetWebdriver(launch) ==
    /\ phase = "factory"
    /\ LET chosen == get_webdriver(installed)
           made == create_webdriver(chosen.creator, launch)
       IN call' = IF chosen.raised # "none"
                  THEN [op |-> "get_webdriver", found |-> installed, created |-> <<>>,
                        raised |-> chosen.raised, session |-> None,
                        instance |-> 0, made |-> {}]
                  ELSE [op |-> "get_webdriver", found |-> installed,
                        created |-> <<chosen.creator>>,
                        raised |-> made.raised, session |-> made.session,
                        instance |-> 0, made |-> {}]
    /\ UNCHANGED <<execVars, runVars, dispatch, sideVars>>

(***************************************************************************)
(* A collection on its own: NoSQLBaseDocument.save on the collection of a  *)
(* document class.  `collection` is the data of the collection, a function *)
(* from _id to the stored dictionary.                                      *)
(***************************************************************************)
Uuids == 1..MaxIds

Titles == {"first", "second"}

\* URL strings as given by a caller: "http://example.com" and
\* "http://example.com/"
RawUrls == {<<"http", "://", "example.com">>, <<"http", "://", "example.com", "/">>}

Documents == [id : Uuids, title : Titles, url : RawUrls]

\* str(uuid)
str(id) == <<"uuid", id>>

\* uuid.UUID(string), as pydantic validates the field id
uuid(string) == string[2]

\* the field serializer of url: str(AnyUrl(...)), where a URL without path
\* gets the path "/"
url_string(url) == IF Len(url) = 3 THEN url \o <<"/">> ELSE url

\* to_mongo: the dump of the model with the field id renamed to _id and the
\* UUID turned into a string
to_mongo(doc) == [_id |-> str(doc.id), title |-> doc.title, url |-> url_string(doc.url)]

\* from_mongo: the model built from a stored dictionary, _id renamed to id
from_mongo(data) == [id |-> uuid(data._id), title |-> data.title, url |-> data.url]

\* the state of the database server at a call
Stores == {"up", "ConnectionFailure"}

\* an insert that replaces the document stored under the same _id
insert_one_replace(data, document, store) ==
    IF store # "up" THEN [raised |-> store, data |-> data]
    ELSE [raised |-> "none", data |-> Put(data, document._id, document)]

\* collection.insert_one: an _id already present is refused
insert_one(data, document, store) ==
    IF store # "up" THEN [raised |-> store, data |-> data]
    ELSE IF document._id \in DOMAIN data
    THEN [raised |-> "ValueError", data |-> data]
    ELSE [raised |-> "none", data |-> Put(data, document._id, document)]

\* save: insert_one(self.to_mongo()); the instance is returned, or None when
\* the insert raised
save(data, doc, store) ==
    LET inserted == insert_one(data, to_mongo(doc), store)
    IN [raised |-> "none",
        saved |-> inserted.raised = "none",
        data |-> inserted.data]

\* the keyword arguments of get_or_create
Filters == [title : Titles, url : RawUrls]

\* a find_one that compares the url of the filter as the model serializes it
find_one_serialized(data, query) ==
    {k \in DOMAIN data : data[k].title = query.title /\ data[k].url = url_string(query.url)}

\* collection.find_one(query): the stored dictionaries whose value under
\* every key of the query equals the value given
find_one(data, query) ==
    {k \in DOMAIN data : data[k].title = query.title /\ data[k].url = query.url}

\* get_or_create: the document found, or a new document of a new id saved;
\* an exception of the collection is logged and raised again.  The id of the
\* document returned is 0 for None.
get_or_create(data, filter_options, new_id, store) ==
    LET found == find_one(data, filter_options)
        new_instance == [id |-> new_id, title |-> filter_options.title,
                         url |-> filter_options.url]
        saved == save(data, new_instance, store)
    IN IF store # "up" THEN [raised |-> store, returned |-> 0, data |-> data]
       ELSE IF found # {}
       THEN [raised |-> "none", returned |-> from_mongo(data[CHOOSE k \in found : TRUE]).id,
             data |-> data]
       ELSE [raised |-> "none", returned |-> IF saved.saved THEN new_id ELSE 0,
             data |-> saved.data]

StoreInit ==
    /\ phase = "store"
    /\ executor = None
    /\ _components = <<>>
    /\ installed = {}
    /\ max_concurrent = 1
    /\ max_workers = 1
    /\ semaphore = 1
    /\ NoRun
    /\ instances = 0
    /\ call = NoCall
    /\ dispatch = NoDispatch
    /\ scroll = NoScroll
    /\ collection = <<>>
    /\ pipeline = NoPipeline

\* the documents that were the first to be stored under their _id, up to
\* and including a call
Firsts(c) == IF c.op = "none" THEN <<>> ELSE c.first

\* what a call leaves for the next one to compare with
Prev(c) ==
    IF c.op = "get_or_create"
    THEN [op |-> c.op, filter |-> c.filter, returned |-> c.returned, raised |-> c.raised]
    ELSE [op |-> c.op]

Save(doc, store) ==
    /\ phase = "store"
    /\ LET r == save(collection, doc, store)
           key == to_mongo(doc)._id
       IN /\ collection' = r.data
          /\ call' = [op |-> "save", doc |-> doc, before |-> collection,
                      raised |-> r.raised, saved |-> r.saved, prev |-> Prev(call),
                      first |-> IF r.saved /\ key \notin DOMAIN Firsts(call)
                                THEN Put(Firsts(call), key, to_mongo(doc))
                                ELSE Firsts(call),
                      instance |-> 0, made |-> {}]
    /\ UNCHANGED <<execVars, runVars, dispatch, scroll, pipeline>>

\* get_or_create(**filter_options); new_id is the uuid4 drawn for a new
\* instance, which is no id of a stored document
GetOrCreate(filter_options, new_id, store) ==
    /\ phase = "store"
    /\ str(new_id) \notin DOMAIN collection \/ find_one(collection, filter_options) # {}
    /\ LET r == get_or_create(collection, filter_options, new_id, store)
       IN /\ collection' = r.data
          /\ call' = [op |-> "get_or_create", filter |-> filter_options,
                      before |-> collection, raised |-> r.raised, returned |-> r.returned,
                      prev |-> Prev(call),
                      first |-> IF DOMAIN r.data = DOMAIN collection THEN Firsts(call)
                                ELSE Put(Firsts(call), str(new_id), r.data[str(new_id)]),
                      instance |-> 0, made |-> {}]
    /\ UNCHANGED <<execVars, runVars, dispatch, scroll, pipeline>>

(***************************************************************************)
(* The step scrape_articles over successive runs of the pipeline.  The     *)
(* Link and Article collections are followed by the URLs of their          *)
(* documents; `links` is the list handed to ScraperExecutor.run and        *)
(* `results` the map that run builds.                                      *)
(***************************************************************************)
\* the URLs of the Link documents that the crawl step has stored
PipelineLinks ==
    {Url("https", "g1.globo.com", <<"a">>),
     Url("https", "g1.globo.com", <<"b">>),
     Url("https", "www.bbc.com", <<"b">>)}

\* the article pages that the runs meet: pages that load or not, with or
\* without a title, and whose insert succeeds or not
ScrapedPages ==
    [get : {"ok", "InvalidSessionIdException", "TimeoutException"},
     soup : {"parsed"},
     title : BOOLEAN, author : {TRUE}, subtitle : {TRUE}, content : {TRUE},
     date : {"ok"},
     insert : BOOLEAN]

\* bulk_find: the documents of the collection, or the empty list when the
\* query raises
bulk_find(urls, store) == IF store = "up" THEN urls ELSE {}

\* list(set): the elements in some order
Lists(S) == {l \in [1..Cardinality(S) -> S] : \A x \in S : \E i \in DOMAIN l : l[i] = x}

\* list(link_urls - article_urls)[:max_articles]
_get_unscraped_links(link_urls, article_urls, max_articles) ==
    {SubSeq(l, 1, IF Len(l) < max_articles THEN Len(l) ELSE max_articles) :
        l \in Lists(link_urls \ article_urls)}

PipelineInit ==
    /\ phase = "pipeline"
    /\ executor = "ScraperExecutor"
    /\ _components = scraper_registry
    /\ installed = {"google-chrome"}
    /\ max_concurrent = 1
    /\ max_workers = 1
    /\ semaphore = 1
    /\ NoRun
    /\ instances = 0
    /\ call = NoCall
    /\ dispatch = NoDispatch
    /\ scroll = NoScroll
    /\ collection = <<>>
    /\ \E link_urls \in SUBSET PipelineLinks, max_articles \in 1..MaxArticles :
          /\ link_urls # {}
          /\ pipeline = [pc |-> "idle", link_urls |-> link_urls, article_urls |-> {},
                         max_articles |-> max_articles, unscraped |-> {},
                         statuses |-> <<>>, succeeded |-> {}, runs |-> 0]

\* scrape_articles up to executor.run: the two queries and the selection
GetUnscrapedLinks(link_store, article_store) ==
    /\ phase = "pipeline"
    /\ pipeline.pc = "idle"
    /\ pipeline.runs < MaxRuns
    /\ links' \in _get_unscraped_links(bulk_find(pipeline.link_urls, link_store),
                                        bulk_find(pipeline.article_urls, article_store),
                                        pipeline.max_articles)
    /\ results' = <<>>
    /\ pipeline' = [pipeline EXCEPT !.pc = "running",
                                    !.unscraped = pipeline.link_urls \ pipeline.article_urls]
    /\ UNCHANGED <<execVars, semaphore, phase, futures, _counter, _start_time, instances,
                   call, dispatch, writes, scroll, collection>>

\* one task of executor.run: registry.get, the scraper on the page, the
\* value of _run and the entry of the result map; the Article collection
\* gets the URL when extract has saved the article
ScrapeTask(i, page, current_time) ==
    /\ phase = "pipeline"
    /\ pipeline.pc = "running"
    /\ links[i] \notin DOMAIN results
    /\ LET link == links[i]
           found == get_lookup(_components, link)
           r == _run(executor, found.factory, link, page)
           rate == _calculate_rate(Cardinality(DOMAIN results) + 1, 0, current_time)
       IN IF found.raised # "none"
          THEN /\ results' = record_failure(results, link)
               /\ UNCHANGED pipeline
          ELSE /\ results' = Put(results, link, r.value = "True" /\ rate.raised = "none")
               /\ pipeline' = [pipeline EXCEPT !.article_urls =
                                   IF r.handler.persisted THEN @ \cup {link} ELSE @]
    /\ UNCHANGED <<execVars, semaphore, phase, links, futures, _counter, _start_time,
                   instances, call, dispatch, writes, scroll, collection>>

\* run has returned: the statuses are computed and the step ends
ScrapeReturn ==
    /\ phase = "pipeline"
    /\ pipeline.pc = "running"
    /\ \A i \in DOMAIN links : links[i] \in DOMAIN results
    /\ pipeline' = [pipeline EXCEPT
          !.pc = "idle",
          !.runs = @ + 1,
          !.statuses = [url \in DOMAIN results |->
                           IF results[url] THEN "success" ELSE "failed"],
          !.succeeded = @ \cup {url \in DOMAIN results : results[url]}]
    /\ links' = <<>>
    /\ results' = <<>>
    /\ UNCHANGED <<execVars, semaphore, phase, futures, _counter, _start_time, instances,
                   call, dispatch, writes, scroll, collection>>

Init ==
    \/ ExecutorInit \/ RegistryInit \/ DispatchInit \/ ScrollInit \/ FactoryInit
    \/ StoreInit \/ PipelineInit

Next ==
    \/ \E ls \in InputLists : Run(ls)
    \/ \E i \in DOMAIN futures : Acquire(i)
    \/ \E i \in DOMAIN futures : Finish(i)
    \/ \E i \in DOMAIN futures : Collect(i)
    \/ Return
    \/ \E name \in RegNames, component \in Components : Register(name, component)
    \/ \E name \in GetNames : Get(name)
    \/ DispatchGet
    \/ DispatchCall
    \/ DispatchReturn
    \/ \E now \in Clock, wait \in Waits, marker \in Markers : ScrollIteration(now, wait, marker)
    \/ \E launch \in Launches : GetWebdriver(launch)
    \/ \E doc \in Documents, store \in Stores : Save(doc, store)
    \/ \E filter_options \in Filters, new_id \in Uuids, store \in Stores :
          GetOrCreate(filter_options, new_id, store)
    \/ \E link_store \in Stores, article_store \in Stores :
          GetUnscrapedLinks(link_store, article_store)
    \/ \E i \in DOMAIN links, page \in ScrapedPages, current_time \in 0..MaxElapsed :
          ScrapeTask(i, page, current_time)
    \/ ScrapeReturn

Spec == Init /\ [][Next]_vars

(***************************************************************************)
(* One executor and its run, with the scheduling that the program has: a   *)
(* thread that can take a permit does so, a handler invocation comes to    *)
(* its return or raise (every wait of a handler has its timeout), and the  *)
(* thread of run goes on collecting and returns.                           *)
(***************************************************************************)
RunNext ==
    \/ \E ls \in InputLists : Run(ls)
    \/ \E i \in DOMAIN futures : Acquire(i)
    \/ \E i \in DOMAIN futures : Finish(i)
    \/ \E i \in DOMAIN futures : Collect(i)
    \/ Return

\* every step of a task changes futures, and Return changes phase
Fairness ==
    /\ WF_futures(\E i \in DOMAIN futures : Acquire(i))
    /\ WF_futures(\E i \in DOMAIN futures : Finish(i))
    /\ WF_futures(\E i \in DOMAIN futures : Collect(i))
    /\ WF_phase(Return)

FairSpec == ExecutorInit /\ [][RunNext]_vars /\ Fairness

(***************************************************************************)
(* Properties.                                                             *)
(***************************************************************************)
Live == {i \in DOMAIN futures : futures[i].pc = "live"}

InputTargets == {links[i] : i \in DOMAIN links}

\* the handler of task i returned / raised
HandlerReturned(i) == futures[i].value = "True"

HandlerRaised(i) == futures[i].value \in {"False", "NameError"}

\* task i is the only task submitted for its target
Sole(i) == \A j \in DOMAIN links : links[j] = links[i] => j = i

\* the dispatch has run the handler to its end
Handled == phase = "dispatch" /\ dispatch.pc \in {"handled", "done"} /\ dispatch.cls # None

\* _run has ended after running the handler
Dispatched == phase = "dispatch" /\ dispatch.pc = "done" /\ dispatch.cls # None

\* C1, as stated: for every input list of N targets the result map returned
\* by run has exactly N entries, one per input target.
C1_ExactlyN ==
    phase = "returned" =>
        /\ DOMAIN results = InputTargets
        /\ Cardinality(DOMAIN results) = Len(links)

\* C1, amended: the result map returned by run has exactly one entry per
\* distinct input target, no target omitted and no other key; it has N entries
\* when the N targets are pairwise distinct.
C1_Completeness ==
    phase = "returned" =>
        /\ DOMAIN results = InputTargets
        /\ (\A i \in DOMAIN links : Sole(i)) => Cardinality(DOMAIN results) = Len(links)

\* a run of two distinct targets, one of an unregistered host and one whose
\* handler raised, has returned
C1_Witness ==
    /\ phase = "returned"
    /\ Len(links) = MaxLinks
    /\ \A i \in DOMAIN links : Sole(i)
    /\ \E i \in DOMAIN links : futures[i].value = "KeyError"
    /\ \E i \in DOMAIN links : HandlerRaised(i)

\* C2: when the handler of a target T raised, the entry of every other target
\* in the returned map equals the outcome of its own handler, True if it
\* returned and False if it raised.
C2_Isolation ==
    phase = "returned" =>
        \A t, i \in DOMAIN links :
            (HandlerRaised(t) /\ links[i] # links[t] /\ Sole(i)) =>
                /\ HandlerReturned(i) => results[links[i]] = TRUE
                /\ HandlerRaised(i) => results[links[i]] = FALSE

\* C3: the live handler instances (constructed, search / extract not yet
\* ended) are never more than max_concurrent, and each of them belongs to a
\* task that holds a permit of the semaphore.
C3_BoundedConcurrency ==
    phase \in {"running", "returned"} =>
        /\ Cardinality(Live) <= max_concurrent
        /\ semaphore >= 0
        /\ max_concurrent - semaphore = Cardinality(Live)

\* max_concurrent handlers are live and a further task, taken by a worker
\* thread, is blocked on the semaphore
C3_Witness ==
    /\ phase = "running"
    /\ Cardinality(Live) = max_concurrent
    /\ \E i \in DOMAIN futures : Waiting(i)

\* C4: a target of an unregistered host is recorded False, the batch is not
\* aborted, and the targets whose handlers succeeded are recorded True.
C4_UnknownHost ==
    phase = "returned" =>
        \A u \in DOMAIN links :
            futures[u].value = "KeyError" =>
                /\ results[links[u]] = FALSE
                /\ \A j \in DOMAIN links :
                      (HandlerReturned(j) /\ Sole(j)) => results[links[j]] = TRUE

\* a key in the form that get looks up
IsSiteKey(k) == k = _extract_netloc(urlparse(k))

C6_FreshHandler ==
    /\ \A i \in DOMAIN futures :
          /\ futures[i].pc = "live" <=> futures[i].handler # 0
          /\ \A j \in DOMAIN futures :
                (i # j /\ futures[i].handler # 0) => futures[i].handler # futures[j].handler
    /\ call.op = "get" =>
          /\ call.raised = "none" <=> call.instance # 0
          /\ \A m \in call.made : m[1] # call.instance

\* two tasks of the same URL are live, each with its own handler instance
C6_Witness ==
    /\ phase = "running"
    /\ \E i, j \in Live : i # j /\ links[i] = links[j]

\* C7: in both executors, when search / extract raises for a target, _run
\* logs an error entry naming the target and the exception caught and
\* returns False; no exception leaves _run.
C7_TaskBoundaryLogging ==
    (Dispatched /\ dispatch.handler.raised # "none") =>
        /\ dispatch.out.raised = "none"
        /\ dispatch.out.value = "False"
        /\ LogEntry(dispatch.link, dispatch.handler.raised) \in dispatch.out.log

\* C8: every search and every extract closes the session of its handler
\* exactly once, on the return path and on every exception path.
C8_SessionRelease ==
    Handled => Closes(dispatch.handler.calls) = 1

\* C9: when the title or the content cannot be extracted from the page,
\* extract raises and the scraper executor records False.
C9_MandatoryFields ==
    (/\ Dispatched
     /\ executor = "ScraperExecutor"
     /\ dispatch.page.get = "ok"
     /\ dispatch.page.soup = "parsed"
     /\ ~dispatch.page.title \/ ~dispatch.page.content) =>
        /\ dispatch.handler.raised # "none"
        /\ dispatch.out.value = "False"

\* C10: when author, subtitle or publication date cannot be extracted while
\* title and content can, the field is null, extract does not raise, the
\* Article is built and the target is recorded True, for each scraper.
C10_OptionalFields ==
    (/\ Dispatched
     /\ executor = "ScraperExecutor"
     /\ dispatch.page.get = "ok"
     /\ dispatch.page.soup = "parsed"
     /\ dispatch.page.title /\ dispatch.page.content
     /\ dispatch.page.date # "malformed"
     /\ ~dispatch.page.author \/ ~dispatch.page.subtitle \/ dispatch.page.date = "missing") =>
        /\ dispatch.handler.raised = "none"
        /\ dispatch.handler.built
        /\ dispatch.out.value = "True"
        /\ ~dispatch.page.author => dispatch.handler.article.author = None
        /\ ~dispatch.page.subtitle => dispatch.handler.article.subtitle = None
        /\ dispatch.page.date = "missing" => dispatch.handler.article.publication_date = None

\* C11: whenever _run gives True for a target, the handler persisted its
\* record(s) for that target (Article.save for a scraper, Link.bulk_insert for
\* a crawler, the store write having succeeded) before search / extract
\* returned, for every registered scraper and crawler.
C11_SuccessImpliesPersisted ==
    (Dispatched /\ dispatch.out.value = "True") => dispatch.handler.persisted

\* C12: the value recorded for each target in the returned map is fixed by the
\* outcome of its task alone (True when _run returned True, False otherwise),
\* whatever the clock readings seen by _calculate_rate.
C12_TelemetryNeutral ==
    phase = "returned" =>
        \A i \in DOMAIN links :
            Sole(i) => results[links[i]] = (futures[i].value = "True")

\* the number of assignments made to key k of the result map
Written(k) == Cardinality({w \in DOMAIN writes : writes[w][1] = k})

\* C13: during a run every key of the result map has been written exactly
\* once; no key is written a second time, by a second task of the same target
\* or by an overwrite of a recorded outcome.
C13_SingleWriter ==
    phase \in {"running", "returned"} =>
        /\ \A k \in DOMAIN results : Written(k) = 1
        /\ \A i \in DOMAIN links : futures[i].yielded => Sole(i)

\* C14: run never raises because of a task; whatever registry resolution,
\* construction and search / extract do, every finished task is collected and
\* run returns; run raises only when the pool could not be created, and then
\* no task was submitted.
C14_Containment ==
    /\ phase = "raised" => futures = <<>>
    /\ phase \in {"running", "returned"} =>
          \A i \in DOMAIN futures : futures[i].yielded => links[i] \in DOMAIN results

\* a crawl of an unregistered host and of a site whose search raised, the
\* exception leaving _run, has returned
C14_Witness ==
    /\ phase = "returned"
    /\ \E i \in DOMAIN links : futures[i].value = "KeyError"
    /\ \E i \in DOMAIN links : futures[i].value = "NameError"

\* C15: when run returns every submitted task has finished: none is running
\* or waiting for the semaphore, and an entry has been written in the result
\* map for every task, in whatever order the tasks completed.
C15_BlocksUntilCompletion ==
    phase = "returned" =>
        /\ Live = {}
        /\ \A i \in DOMAIN futures :
              /\ futures[i].pc = "done"
              /\ ~Waiting(i)
              /\ Written(links[i]) >= 1
              /\ links[i] \in DOMAIN results

\* run has returned after the task submitted second was written first
C15_Witness ==
    /\ phase = "returned"
    /\ Len(links) = 2
    /\ links[1] # links[2]
    /\ writes[1][1] = links[2]
    /\ futures[2].value \in {"True", "False"}

\* an absolute http / https URL
IsAbsoluteHttp(link) ==
    urlparse(link).scheme \in {"http", "https"} /\ urlparse(link).netloc # <<>>

\* C18: a target that is not an absolute http / https URL gets no handler
\* instance (no browser session), its task ends with the KeyError of the
\* registry, and run records False for it and never drops it.
C18_MalformedTargets ==
    /\ (phase = "dispatch" /\ dispatch.pc = "done" /\ ~IsAbsoluteHttp(dispatch.link)) =>
          /\ dispatch.out.raised = "KeyError"
          /\ dispatch.session = "none"
          /\ instances = 0
    /\ phase \in {"running", "returned"} =>
        /\ instances <= Cardinality({i \in DOMAIN links : IsAbsoluteHttp(links[i])})
        /\ \A i \in DOMAIN links :
              ~IsAbsoluteHttp(links[i]) =>
                  /\ futures[i].pc # "live"
                  /\ futures[i].pc = "done" => futures[i].value = "KeyError"
                  /\ futures[i].yielded => results[links[i]] = FALSE
                  /\ phase = "returned" => links[i] \in DOMAIN results

\* a run of a string without scheme and of a URL whose handler returned has
\* returned, one handler having been constructed
C18_Witness ==
    /\ phase = "returned"
    /\ instances = 1
    /\ \E i \in DOMAIN links : links[i] = <<"g1.globo.com", "/", "a">>
    /\ \E i \in DOMAIN links : IsAbsoluteHttp(links[i]) /\ futures[i].value = "True"

\* the load-more control has been clickable in every iteration so far and has
\* reported the same page marker every time
Stuck == phase = "scroll" /\ scroll.iterations >= 1 /\ scroll.steady

\* C16: in the loops that read a page marker (G1, Band, CNNBrasil,
\* BBCBrasil), when the control stays clickable and always reports the same
\* marker, the loop ends once the marker has been seen unchanged more than
\* MAX_REPEATED_PAGE_COUNT times: after the first read no more than
\* MAX_REPEATED_PAGE_COUNT + 1 further iterations begin.
C16_StuckMarkerTerminates ==
    (Stuck /\ ReadsMarker(scroll.cls)) =>
        /\ scroll.iterations <= MAX_REPEATED_PAGE_COUNT + 2
        /\ scroll.iterations = MAX_REPEATED_PAGE_COUNT + 2 => scroll.pc = "ended"

\* C17: in every scroll loop, once an iteration check has read an elapsed
\* time beyond TIMEOUT the loop has ended, whatever the counters are.
C17_WallClockCeiling ==
    (phase = "scroll" /\ scroll.elapsed > TIMEOUT) => scroll.pc = "ended"

\* C19: get_webdriver returns the session produced by exactly one creator or
\* raises; the creator is Chrome's when google-chrome is found and Edge's when
\* only microsoft-edge-stable is found, its create_webdriver is called exactly
\* once, and with no browser found get_webdriver raises and creates nothing.
C19_SessionFactory ==
    call.op = "get_webdriver" =>
        /\ Len(call.created) <= 1
        /\ call.raised = "none" =>
              Len(call.created) = 1 /\ call.session = call.created[1]
        /\ call.raised # "none" => call.session = None
        /\ "google-chrome" \in call.found => call.created = <<"ChromeWebDriverCreator">>
        /\ call.found = {"microsoft-edge-stable"} => call.created = <<"EdgeWebDriverCreator">>
        /\ call.found = {} => call.raised = "Exception" /\ call.created = <<>>

\* on a machine with Edge only, get_webdriver has returned a session
C19_Witness ==
    /\ call.op = "get_webdriver"
    /\ call.found = {"microsoft-edge-stable"}
    /\ call.raised = "none"
    /\ call.session = "EdgeWebDriverCreator"

Matching(filter_options) == find_one_serialized(collection, filter_options)

\* C21: when get_or_create is called twice in sequence with the same filter
\* options, both calls return a document of the same id, the second call
\* leaves the collection as it was, and the collection then holds exactly one
\* document matching the filter.
C21_GetOrCreateIdempotent ==
    (/\ phase = "store"
     /\ call.op = "get_or_create"
     /\ call.prev.op = "get_or_create"
     /\ call.prev.filter = call.filter
     /\ call.prev.raised = "none" /\ call.prev.returned # 0
     /\ call.raised = "none") =>
        /\ call.returned = call.prev.returned
        /\ collection = call.before
        /\ Cardinality(Matching(call.filter)) = 1

\* the permits held by the tasks
Held == max_concurrent - semaphore

\* C22: a task takes one permit before its handler is resolved and gives it
\* back, on success and on failure, before the task finishes: the permits
\* held are those of the tasks inside `with self.semaphore`, never more than
\* max_concurrent; a task whose entry has been written holds none; after run
\* has returned all max_concurrent permits are free.
C22_PermitDiscipline ==
    phase \in {"running", "returned"} =>
        /\ Held \in 0..max_concurrent
        /\ Held = Cardinality(Live)
        /\ \A i \in DOMAIN futures :
              /\ futures[i].pc = "queued" => futures[i].handler = 0
              /\ futures[i].yielded => futures[i].pc = "done"
        /\ phase = "returned" => semaphore = max_concurrent

\* run has returned after a task whose search raised and a task whose
\* handler returned, with one permit for both
C22_Witness ==
    /\ phase = "returned"
    /\ max_concurrent = 1
    /\ semaphore = 1
    /\ \E i \in DOMAIN links : futures[i].value = "NameError"
    /\ \E i \in DOMAIN links : futures[i].value = "True"

\* task i has been submitted and has not yet passed `with self.semaphore`
Submitted(i) == phase = "running" /\ i \in DOMAIN futures /\ futures[i].pc = "queued"

\* task i has taken its permit (and may have given it back)
Acquired(i) == i \in DOMAIN futures /\ futures[i].pc \in {"live", "done"}

\* C23: for every max_workers and max_concurrent and every list of targets,
\* when every handler invocation returns or raises, every submitted task
\* comes to take a permit and run comes to return.
C23_NoDeadlock ==
    /\ \A i \in 1..(MaxLinks + 1) : Submitted(i) ~> Acquired(i)
    /\ (phase = "running") ~> (phase = "returned")

\* run has returned MaxLinks targets of registered sites on one worker thread
\* with more than one permit
C23_Witness ==
    /\ phase = "returned"
    /\ Len(links) = MaxLinks
    /\ max_workers = 1
    /\ max_concurrent > max_workers
    /\ instances = MaxLinks

\* the futures that as_completed has yielded to the loop of run
Yielded == {i \in DOMAIN futures : futures[i].yielded}

\* C24: within one run the counter starts at 0, never decreases and has been
\* incremented once for each task that the loop has taken, whether the task
\* succeeded, its handler raised or its host was unregistered; when run
\* returns the counter equals the number of submitted tasks.
C24_CompletedCount ==
    phase \in {"running", "returned"} =>
        /\ _counter = Cardinality(Yielded)
        /\ phase = "returned" => _counter = Len(links)

\* the step is an iteration of a marker-reading loop
MarkerLoopStep == phase = "scroll" /\ ReadsMarker(scroll.cls) /\ scroll' # scroll

\* C25: in the loops that read a page number, an iteration that reads a
\* number greater than last_page_number sets repeated_page_count to 0, adds
\* one to load_more and sets last_page_number to the number read, and the
\* loop ends at that iteration exactly when load_more has reached
\* scroll_limit; load_more never exceeds scroll_limit and last_page_number
\* never decreases.
C25_LoadMoreTransition ==
    [][MarkerLoopStep =>
         /\ scroll.page_number <= scroll.last_page_number
         /\ scroll'.page_number > scroll.last_page_number =>
               /\ scroll'.repeated_page_count = 0
               /\ scroll'.load_more = scroll.load_more + 1
               /\ scroll'.last_page_number = scroll'.page_number
               /\ (scroll'.load_more >= scroll.scroll_limit) <=>
                     (scroll'.pc = "ended" /\ scroll'.reason = "limit")
         /\ ~(scroll'.page_number > scroll.last_page_number) =>
               /\ scroll'.load_more = scroll.load_more
               /\ scroll'.last_page_number = scroll.last_page_number
         /\ scroll'.load_more <= scroll.scroll_limit
         /\ scroll'.last_page_number >= scroll.last_page_number]_vars

\* the loop of G1Crawler has ended at the scroll limit after MaxScrollLimit
\* advances of the page number, with repeated pages in between
C25_Witness ==
    /\ phase = "scroll"
    /\ scroll.cls = "G1Crawler"
    /\ scroll.reason = "limit"
    /\ scroll.scroll_limit = MaxScrollLimit
    /\ scroll.load_more = MaxScrollLimit
    /\ scroll.last_page_number = MaxMarker
    /\ scroll.iterations > MaxScrollLimit
    /\ scroll.repeated_page_count = 0

\* C26: in every scroll loop each wait that times out adds one to
\* retry_count, nothing sets retry_count back, and the loop ends at the
\* check after retry_count has exceeded MAX_RETRIES, so that one crawl sees at
\* most MAX_RETRIES + 1 timeouts.
C26_RetryBudget ==
    phase = "scroll" =>
        /\ scroll.timeouts <= scroll.retry_count
        /\ scroll.cls # "BandCrawler" => scroll.timeouts = scroll.retry_count
        /\ scroll.retry_count <= MAX_RETRIES + 1
        /\ scroll.timeouts <= MAX_RETRIES + 1
        /\ scroll.reason = "retries" => scroll.retry_count = MAX_RETRIES + 1

\* a loop has given up after MAX_RETRIES + 1 timeouts with successful
\* iterations in between
C26_Witness ==
    /\ phase = "scroll"
    /\ scroll.reason = "retries"
    /\ scroll.timeouts = MAX_RETRIES + 1
    /\ scroll.load_more > 0
    /\ scroll.clicks > 0

\* C27: however scroll_page ends, search goes on to extract and insert the
\* links and the crawl target is recorded True; a crawl target whose page was
\* loaded by driver.get is never recorded otherwise.
C27_TerminationNotError ==
    (Dispatched /\ executor = "CrawlerExecutor" /\ dispatch.page.get = "ok") =>
        /\ dispatch.handler.raised = "none"
        /\ dispatch.out.raised = "none"
        /\ dispatch.out.value = "True"

\* C30: over successive runs of scrape_articles the list given to run holds
\* only URLs that have a Link and no Article, no URL twice and at most
\* max_articles URLs; a URL that a run recorded as success has an Article
\* and is not selected by a later run, whatever scraper handled it.
C30_NotScrapedAgain ==
    phase = "pipeline" =>
        /\ \A i \in DOMAIN links :
              /\ links[i] \in pipeline.unscraped
              /\ links[i] \notin pipeline.succeeded
              /\ \A j \in DOMAIN links : links[i] = links[j] => i = j
        /\ Len(links) <= pipeline.max_articles
        /\ \A url \in pipeline.succeeded : url \in pipeline.article_urls

\* C29: every key that register has accepted is found by a later get of the
\* same key, which returns an instance of the factory registered under it.
C29_RegisterGetAgree ==
    (phase = "registry" /\ call.op = "get" /\ call.name \in DOMAIN _components) =>
        /\ call.raised # "KeyError"
        /\ call.component = _components[call.name]

\* what get does for a URL in the registry as it is: the factory found, or
\* KeyError
Resolves(name) == get_lookup(_components, name)

\* C28, as stated: get resolves by scheme and host only: a URL with the
\* scheme and the host of the URL just resolved fails as it did or gives the
\* same factory, and get leaves the registry as it was.
C28_SchemeAndHost ==
    (phase = "registry" /\ call.op = "get") =>
        /\ \A b \in GetNames :
              (/\ urlparse(b).scheme = urlparse(call.name).scheme
               /\ hostname(urlparse(b)) = hostname(urlparse(call.name))) =>
                  /\ Resolves(b).factory = call.component
                  /\ Resolves(b).raised = "KeyError" <=> call.raised = "KeyError"
        /\ list_components(_components) = list_components(call.before)

\* C28, amended: get resolves by scheme and netloc (host and port as
\* written) only: a URL with the scheme and the netloc of the URL just
\* resolved fails as it did or gives the same factory, whatever the path,
\* query and fragment of the two, and get leaves the registry as it was.
C28_SchemeAndNetloc ==
    (phase = "registry" /\ call.op = "get") =>
        /\ \A b \in GetNames :
              (/\ urlparse(b).scheme = urlparse(call.name).scheme
               /\ urlparse(b).netloc = urlparse(call.name).netloc) =>
                  /\ Resolves(b).factory = call.component
                  /\ Resolves(b).raised = "KeyError" <=> call.raised = "KeyError"
        /\ list_components(_components) = list_components(call.before)
        /\ _components = call.before

\* get has resolved a URL with a query and no path to the factory registered
\* for its site, in a registry that holds two sites
C28_Witness ==
    /\ phase = "registry"
    /\ call.op = "get"
    /\ call.name = <<"https", "://", "g1.globo.com", "?", "q">>
    /\ call.component = "G1Scraper"
    /\ call.instance # 0
    /\ Cardinality(DOMAIN _components) >= 2

====
